---- MODULE Spec2Model ----
(***************************************************************************)
(* State-machine model of the license activation bot (src/app.py) and of   *)
(* the webhook relay service described in spec.md section 4.1.             *)
(*                                                                         *)
(* Python values are modelled structurally:                                *)
(*   None            [kind |-> "None"]                                     *)
(*   a dict          [kind |-> "dict", items |-> f], f a function whose    *)
(*                   domain is the set of keys present                     *)
(*   a str (env)     [kind |-> "str", s |-> <<characters>>]                *)
(*   an int          [kind |-> "int", v |-> n]                             *)
(* A message text is the sequence of the pieces its f-string concatenates. *)
(* The emoji and the back-quote delimiters of the literals are left out of *)
(* the string constants; every literal keeps its wording.                  *)
(***************************************************************************)
EXTENDS Integers, Sequences, FiniteSets, TLC

\* ------------------------------------------------------------------ bounds
\* number of command invocations the bot serves in one run
MaxInvocations == 2

\* ---------------------------------------------------------- Python helpers
PyNone == [kind |-> "None"]
Unassigned == [kind |-> "unassigned"]
EmptyItems == [k \in {} |-> TRUE]
EmptyDict == [kind |-> "dict", items |-> EmptyItems]

PyDict(f) == [kind |-> "dict", items |-> f]
PyStr(cs) == [kind |-> "str", s |-> cs]
PyInt(n) == [kind |-> "int", v |-> n]
PyBool(b) == [kind |-> "bool", v |-> b]

\* truth value of a Python object, as `if x`, `not x`, `x and y`, all([...])
Truthy(x) ==
  CASE x.kind = "None" -> FALSE
    [] x.kind = "dict" -> DOMAIN x.items # {}
    [] x.kind = "str" -> Len(x.s) > 0
    [] x.kind = "int" -> x.v # 0
    [] x.kind = "bool" -> x.v
    [] x.kind = "role" -> TRUE
    [] OTHER -> FALSE

\* d.get(k, default) on the items of a dict
DictGet(items, k, default) == IF k \in DOMAIN items THEN items[k] ELSE default

Digits == {"0", "1", "2", "3", "4", "5", "6", "7", "8", "9"}
DigitVal(c) == CHOOSE n \in 0..9 : <<"0", "1", "2", "3", "4", "5", "6", "7", "8", "9">>[n + 1] = c

\* int(s) accepts a non-empty string of decimal digits; anything else raises ValueError
IsIntLiteral(cs) == Len(cs) > 0 /\ \A i \in 1..Len(cs) : cs[i] \in Digits

RECURSIVE ParseInt(_)
ParseInt(cs) ==
  IF Len(cs) = 0 THEN 0
  ELSE 10 * ParseInt(SubSeq(cs, 1, Len(cs) - 1)) + DigitVal(cs[Len(cs)])

\* all([...]) with `any` in its place
py_all_any(vals) == \E i \in 1..Len(vals) : Truthy(vals[i])

\* all([...]): every element is truthy
py_all(vals) == \A i \in 1..Len(vals) : Truthy(vals[i])

\* ------------------------------------------------------------ environment
EnvNames == {"DISCORD_BOT_TOKEN", "KEYAUTH_OWNER_ID", "KEYAUTH_APP_NAME", "DISCORD_ROLE_ID"}

\* values an environment variable may hold when it is set: empty or not, and
\* for the role id also a zero and a non-numeric string
EnvStrings(name) ==
  IF name = "DISCORD_ROLE_ID" THEN {<<>>, <<"0">>, <<"x">>, <<"4", "2">>}
  ELSE {<<>>, <<"x">>}

\* os.environ: a function from the names that are set to their values
Environments ==
  UNION {{e \in [S -> {<<>>, <<"0">>, <<"x">>, <<"4", "2">>}] : \A n \in S : e[n] \in EnvStrings(n)}
         : S \in SUBSET EnvNames}

\* os.getenv(name): the value, or None when the name is not set
getenv(e, name) == IF name \in DOMAIN e THEN PyStr(e[name]) ELSE PyNone

\* ---------------------------------------------------------------- state
VARIABLES
  environ,            \* os.environ of the bot process
  ppc,                \* position of the bot process
  DISCORD_BOT_TOKEN, KEYAUTH_OWNER_ID, KEYAUTH_APP_NAME, DISCORD_ROLE_ID,
  cmd,                \* command being handled, "none" when idle
  hpc,                \* position inside the running handler
  key,                \* the handler's key argument
  key_info,           \* local of activate_key / reset_hwid_with_key
  role_to_assign,     \* local of activate_key
  keyauth_username,   \* local of reset_hwid_with_key
  calls,              \* external calls made by the current invocation, in order
  status,             \* "idle", "running", "returned" or "raised"
  served,             \* invocations completed so far
  WEBHOOK_URL,        \* relay configuration: the webhook destination
  request,            \* the HTTP request the relay handled last
  response,           \* the relay's response to it
  outbound            \* webhook posts the relay made while handling it

cfgVars == <<DISCORD_BOT_TOKEN, KEYAUTH_OWNER_ID, KEYAUTH_APP_NAME, DISCORD_ROLE_ID>>
localVars == <<key, key_info, role_to_assign, keyauth_username>>
handlerVars == <<cmd, hpc, key, key_info, role_to_assign, keyauth_username, calls, status, served>>
relayVars == <<WEBHOOK_URL, request, response, outbound>>
botVars == <<environ, ppc, DISCORD_BOT_TOKEN, KEYAUTH_OWNER_ID, KEYAUTH_APP_NAME, DISCORD_ROLE_ID,
             cmd, hpc, key, key_info, role_to_assign, keyauth_username, calls, status, served>>
vars == <<environ, ppc, DISCORD_BOT_TOKEN, KEYAUTH_OWNER_ID, KEYAUTH_APP_NAME, DISCORD_ROLE_ID,
          cmd, hpc, key, key_info, role_to_assign, keyauth_username, calls, status, served,
          WEBHOOK_URL, request, response, outbound>>

NoRequest == [path |-> "none", message |-> PyNone]
NoResponse == [status |-> 0, body |-> <<>>]

Init ==
  /\ environ \in Environments
  /\ ppc = "load"
  /\ DISCORD_BOT_TOKEN = Unassigned
  /\ KEYAUTH_OWNER_ID = Unassigned
  /\ KEYAUTH_APP_NAME = Unassigned
  /\ DISCORD_ROLE_ID = Unassigned
  /\ cmd = "none"
  /\ hpc = "none"
  /\ key = Unassigned
  /\ key_info = Unassigned
  /\ role_to_assign = Unassigned
  /\ keyauth_username = Unassigned
  /\ calls = <<>>
  /\ status = "idle"
  /\ served = 0
  /\ WEBHOOK_URL \in {PyNone, PyStr(<<"u">>)}
  /\ request = NoRequest
  /\ response = NoResponse
  /\ outbound = <<>>

\* ------------------------------------------------------------ bot startup
\* lines 11-14: read the four settings; int() of the role id raises on None
\* (TypeError) and on a non-numeric string (ValueError), ending the process
LoadConfig ==
  /\ ppc = "load"
  /\ DISCORD_BOT_TOKEN' = getenv(environ, "DISCORD_BOT_TOKEN")
  /\ KEYAUTH_OWNER_ID' = getenv(environ, "KEYAUTH_OWNER_ID")
  /\ KEYAUTH_APP_NAME' = getenv(environ, "KEYAUTH_APP_NAME")
  /\ LET r == getenv(environ, "DISCORD_ROLE_ID") IN
       IF r.kind = "str" /\ IsIntLiteral(r.s)
       THEN /\ DISCORD_ROLE_ID' = PyInt(ParseInt(r.s))
            /\ ppc' = "validate"
       ELSE /\ DISCORD_ROLE_ID' = DISCORD_ROLE_ID
            /\ ppc' = "crashed"
  /\ UNCHANGED <<environ, handlerVars, relayVars>>

\* lines 18-21: exit() unless all four settings are truthy
Validate ==
  /\ ppc = "validate"
  /\ ppc' = IF py_all(<<DISCORD_BOT_TOKEN, KEYAUTH_OWNER_ID, KEYAUTH_APP_NAME, DISCORD_ROLE_ID>>)
            THEN "keyauth_init" ELSE "exited"
  /\ UNCHANGED <<environ, cfgVars, handlerVars, relayVars>>

\* lines 24-34: construct the licensing client; exit() if it raises
KeyAuthInit ==
  /\ ppc = "keyauth_init"
  /\ \E ok \in BOOLEAN : ppc' = IF ok THEN "main" ELSE "exited"
  /\ UNCHANGED <<environ, cfgVars, handlerVars, relayVars>>

\* lines 38-43, 181-182: build the client and command tree, client.run(token)
Main ==
  /\ ppc = "main"
  /\ ppc' = "running"
  /\ UNCHANGED <<environ, cfgVars, handlerVars, relayVars>>

\* lines 45-51: on_ready syncs the slash commands; commands are served from here on
on_ready ==
  /\ ppc = "running"
  /\ ppc' = "ready"
  /\ UNCHANGED <<environ, cfgVars, handlerVars, relayVars>>

\* ------------------------------------------------- external collaborators
Keys == {"KEY-1"}

\* str(interaction.user.id) of the invoking user
USER_ID == "1001"

\* a raised exception: its class and str(e)
Exc(type, text) == [kind |-> "raise", type |-> type, text |-> text]

\* user-info structures of a validation response
UserInfos == {EmptyItems, [username |-> ""], [username |-> "alice"]}

\* the dicts keyauthapp.license(key) may return: success flag true, false or
\* absent; message present or absent; info present or absent
LicenseItems ==
  {EmptyItems,
   [success |-> PyBool(FALSE)],
   [success |-> PyBool(FALSE), message |-> "Invalid license key"],
   [message |-> "Key not found"],
   [success |-> PyBool(TRUE)]}
  \cup {[success |-> PyBool(TRUE), info |-> PyDict(u)] : u \in UserInfos}

\* every outcome of keyauthapp.license(key): a dict, None, or an exception
LicenseOutcomes ==
  {PyDict(f) : f \in LicenseItems} \cup {PyNone, Exc("ConnectionError", "connection refused")}

\* the dicts keyauthapp.hwid(username) may return
HwidItems ==
  {EmptyItems,
   [success |-> PyBool(TRUE)],
   [success |-> PyBool(FALSE)],
   [success |-> PyBool(FALSE), message |-> "HWID reset on cooldown"]}

HwidOutcomes ==
  {PyDict(f) : f \in HwidItems} \cup {PyNone, Exc("ConnectionError", "connection refused")}

\* guild.get_role(id): the role, or None when the id names no role of the server
TheRole == [kind |-> "role", name |-> "Customer"]
RoleOutcomes == {TheRole, PyNone}

\* interaction.user.add_roles(role): returns, raises Forbidden, or raises something else
Returned == [kind |-> "return"]
GrantOutcomes == {Returned, Exc("Forbidden", "403 Forbidden"), Exc("HTTPException", "500 Internal Server Error")}

\* keyauthapp.setvar(...): returns (its result is not looked at) or raises
SetvarOutcomes == {Returned, Exc("ConnectionError", "connection refused")}

\* ------------------------------------------------------------ message texts
ROLE_NOT_FOUND == <<"Error: The configured role could not be found on this server. Please contact an admin.">>
PERMISSION_ERROR == <<"Error: I don't have permission to assign roles. Make sure my role is higher than the one I'm trying to assign.">>
MUST_ACTIVATE == <<"You must activate a key first using /activate before you can reset your HWID.">>
USE_RESET_WITH_KEY == <<"To reset your HWID, please use the /reset_hwid_with_key command and provide your key.">>
KEY_NOT_VALID == <<"The provided key is not valid.">>
NO_USER_INFO == <<"Could not retrieve user information from this key.">>
HWID_RESET_OK == <<"Your HWID has been successfully reset.">>

\* line 86
ActivationSuccess(role_name) ==
  <<"Success! Your key has been activated and you've been given the ", role_name, " role.">>
\* line 90
UnexpectedError(text) == <<"An unexpected error occurred: ", text>>
\* line 94
ActivationFailed(error_message) == <<"Activation failed: ", error_message>>
\* line 177
HwidResetFailed(error_message) == <<"Failed to reset HWID: ", error_message>>

\* one external call of a handler: the operation, its argument, its outcome
Call(op, arg, res) == [op |-> op, arg |-> arg, res |-> res]
Defer == Call("defer", <<>>, Returned)
Followup(text) == Call("followup", text, Returned)

\* `key_info and key_info.get("success")` (lines 69, 158)
KeyValid(info) ==
  /\ Truthy(info)
  /\ Truthy(DictGet(info.items, "success", PyNone))

\* line 93 with the message of the record never read
activation_error_message_default(info) ==
  IF Truthy(info) THEN "Unknown error" ELSE "Failed to connect to KeyAuth API."

\* line 93: key_info.get("message", "Unknown error") if key_info else "Failed to connect ..."
activation_error_message(info) ==
  IF Truthy(info)
  THEN DictGet(info.items, "message", "Unknown error")
  ELSE "Failed to connect to KeyAuth API."

\* lines 87-90 with the two except clauses in the other order
grant_error_text_swapped(e) == UnexpectedError(e.text)

\* lines 87-90: `except discord.errors.Forbidden` comes before `except Exception`
grant_error_text(e) ==
  IF e.type = "Forbidden" THEN PERMISSION_ERROR ELSE UnexpectedError(e.text)

\* --------------------------------------------------------- command: activate
\* lines 57-63 with the license call made before the response is deferred
activate_key_late_defer ==
  /\ ppc = "ready" /\ status = "idle" /\ served < MaxInvocations
  /\ \E k \in Keys : key' = k
  /\ cmd' = "activate"
  /\ status' = "running"
  /\ calls' = <<>>
  /\ hpc' = "license"
  /\ UNCHANGED <<environ, ppc, cfgVars, key_info, role_to_assign, keyauth_username, served, relayVars>>

\* lines 57-63: the handler starts and defers the response
activate_key ==
  /\ ppc = "ready" /\ status = "idle" /\ served < MaxInvocations
  /\ \E k \in Keys : key' = k
  /\ cmd' = "activate"
  /\ status' = "running"
  /\ calls' = <<Defer>>
  /\ hpc' = "license"
  /\ UNCHANGED <<environ, ppc, cfgVars, key_info, role_to_assign, keyauth_username, served, relayVars>>

\* line 66: key_info = keyauthapp.license(key); an exception leaves the handler
ActivateLicense ==
  /\ cmd = "activate" /\ status = "running" /\ hpc = "license"
  /\ \E o \in LicenseOutcomes :
       /\ calls' = Append(calls, Call("license", key, o))
       /\ IF o.kind = "raise"
          THEN /\ status' = "raised"
               /\ hpc' = "end"
               /\ key_info' = key_info
          ELSE /\ status' = status
               /\ hpc' = "check"
               /\ key_info' = o
  /\ UNCHANGED <<environ, ppc, cfgVars, cmd, key, role_to_assign, keyauth_username, served, relayVars>>

\* lines 69, 91-94: the key is not valid; report the error message
ActivateInvalid ==
  /\ cmd = "activate" /\ status = "running" /\ hpc = "check"
  /\ ~KeyValid(key_info)
  /\ calls' = Append(calls, Followup(ActivationFailed(activation_error_message(key_info))))
  /\ status' = "returned"
  /\ hpc' = "end"
  /\ UNCHANGED <<environ, ppc, cfgVars, cmd, localVars, served, relayVars>>

\* lines 71-76 with the `return` after the configuration error left out
ActivateGetRole_noreturn ==
  /\ cmd = "activate" /\ status = "running" /\ hpc = "check"
  /\ KeyValid(key_info)
  /\ \E r \in RoleOutcomes :
       /\ role_to_assign' = r
       /\ hpc' = "grant"
       /\ status' = status
       /\ calls' = IF ~Truthy(r)
                   THEN calls \o <<Call("get_role", DISCORD_ROLE_ID.v, r), Followup(ROLE_NOT_FOUND)>>
                   ELSE Append(calls, Call("get_role", DISCORD_ROLE_ID.v, r))
  /\ UNCHANGED <<environ, ppc, cfgVars, cmd, key, key_info, keyauth_username, served, relayVars>>

\* lines 69-76: the key is valid; look the role up, stop if it does not exist
ActivateGetRole ==
  /\ cmd = "activate" /\ status = "running" /\ hpc = "check"
  /\ KeyValid(key_info)
  /\ \E r \in RoleOutcomes :
       /\ role_to_assign' = r
       /\ IF ~Truthy(r)
          THEN /\ calls' = calls \o <<Call("get_role", DISCORD_ROLE_ID.v, r), Followup(ROLE_NOT_FOUND)>>
               /\ status' = "returned"
               /\ hpc' = "end"
          ELSE /\ calls' = Append(calls, Call("get_role", DISCORD_ROLE_ID.v, r))
               /\ status' = status
               /\ hpc' = "grant"
  /\ UNCHANGED <<environ, ppc, cfgVars, cmd, key, key_info, keyauth_username, served, relayVars>>

\* lines 78-80, 87-90: add the role; an exception is reported by the except clauses
ActivateGrant ==
  /\ cmd = "activate" /\ status = "running" /\ hpc = "grant"
  /\ \E g \in GrantOutcomes :
       IF g.kind = "raise"
       THEN /\ calls' = calls \o <<Call("add_roles", role_to_assign.name, g), Followup(grant_error_text(g))>>
            /\ status' = "returned"
            /\ hpc' = "end"
       ELSE /\ calls' = Append(calls, Call("add_roles", role_to_assign.name, g))
            /\ status' = status
            /\ hpc' = "setvar"
  /\ UNCHANGED <<environ, ppc, cfgVars, cmd, localVars, served, relayVars>>

\* lines 84-90: key_info["info"]["username"] raises KeyError when a key is
\* absent; setvar may raise; both are reported by `except Exception`;
\* otherwise the success message is sent
ActivateSetvar ==
  /\ cmd = "activate" /\ status = "running" /\ hpc = "setvar"
  /\ IF "info" \notin DOMAIN key_info.items
     THEN calls' = Append(calls, Followup(grant_error_text(Exc("KeyError", "'info'"))))
     ELSE IF "username" \notin DOMAIN key_info.items["info"].items
     THEN calls' = Append(calls, Followup(grant_error_text(Exc("KeyError", "'username'"))))
     ELSE \E s \in SetvarOutcomes :
            LET c == Call("setvar", <<key_info.items["info"].items["username"], "discordid", USER_ID>>, s) IN
            IF s.kind = "raise"
            THEN calls' = calls \o <<c, Followup(grant_error_text(s))>>
            ELSE calls' = calls \o <<c, Followup(ActivationSuccess(role_to_assign.name))>>
  /\ status' = "returned"
  /\ hpc' = "end"
  /\ UNCHANGED <<environ, ppc, cfgVars, cmd, localVars, served, relayVars>>

\* ------------------------------------------------------- command: reset_hwid
\* lines 98-148: defer, look the role up, and either ask for activation or
\* point to the key-based command
reset_hwid ==
  /\ ppc = "ready" /\ status = "idle" /\ served < MaxInvocations
  /\ cmd' = "reset_hwid"
  /\ \E r \in RoleOutcomes, member \in BOOLEAN :
       calls' = <<Defer, Call("get_role", DISCORD_ROLE_ID.v, r),
                  Followup(IF ~(r.kind = "role" /\ member) THEN MUST_ACTIVATE ELSE USE_RESET_WITH_KEY)>>
  /\ status' = "returned"
  /\ hpc' = "end"
  /\ UNCHANGED <<environ, ppc, cfgVars, localVars, served, relayVars>>

\* ---------------------------------------------- command: reset_hwid_with_key
\* lines 152-154: the handler starts and defers the response
reset_hwid_with_key ==
  /\ ppc = "ready" /\ status = "idle" /\ served < MaxInvocations
  /\ \E k \in Keys : key' = k
  /\ cmd' = "reset_hwid_with_key"
  /\ status' = "running"
  /\ calls' = <<Defer>>
  /\ hpc' = "license"
  /\ UNCHANGED <<environ, ppc, cfgVars, key_info, role_to_assign, keyauth_username, served, relayVars>>

\* lines 157-160: validate the key; an exception leaves the handler
ResetLicense ==
  /\ cmd = "reset_hwid_with_key" /\ status = "running" /\ hpc = "license"
  /\ \E o \in LicenseOutcomes :
       IF o.kind = "raise"
       THEN /\ calls' = Append(calls, Call("license", key, o))
            /\ status' = "raised"
            /\ hpc' = "end"
            /\ key_info' = key_info
       ELSE /\ key_info' = o
            /\ IF ~KeyValid(o)
               THEN /\ calls' = calls \o <<Call("license", key, o), Followup(KEY_NOT_VALID)>>
                    /\ status' = "returned"
                    /\ hpc' = "end"
               ELSE /\ calls' = Append(calls, Call("license", key, o))
                    /\ status' = status
                    /\ hpc' = "extract"
  /\ UNCHANGED <<environ, ppc, cfgVars, cmd, key, role_to_assign, keyauth_username, served, relayVars>>

\* line 166 testing `is None` in place of the truth value
UsernameMissing_isnone(user_info) == "username" \notin DOMAIN user_info.items

\* lines 163-166: user_info.get("username") is None or empty
UsernameMissing(user_info) ==
  \/ "username" \notin DOMAIN user_info.items
  \/ user_info.items["username"] = ""

\* lines 163-168: take the username out of the user info; stop if there is none
ResetExtract ==
  /\ cmd = "reset_hwid_with_key" /\ status = "running" /\ hpc = "extract"
  /\ LET user_info == DictGet(key_info.items, "info", EmptyDict) IN
       IF UsernameMissing(user_info)
       THEN /\ calls' = Append(calls, Followup(NO_USER_INFO))
            /\ status' = "returned"
            /\ hpc' = "end"
            /\ keyauth_username' = PyNone
       ELSE /\ calls' = calls
            /\ status' = status
            /\ hpc' = "hwid"
            /\ keyauth_username' = PyStr(user_info.items["username"])
  /\ UNCHANGED <<environ, ppc, cfgVars, cmd, key, key_info, role_to_assign, served, relayVars>>

\* lines 171-177: reset the HWID and report; an exception of the call, and the
\* AttributeError of None.get at line 176, leave the handler
ResetHwid ==
  /\ cmd = "reset_hwid_with_key" /\ status = "running" /\ hpc = "hwid"
  /\ \E reset_response \in HwidOutcomes :
       LET c == Call("hwid", keyauth_username.s, reset_response) IN
       IF reset_response.kind = "raise"
       THEN /\ calls' = Append(calls, c)
            /\ status' = "raised"
       ELSE IF KeyValid(reset_response)
       THEN /\ calls' = calls \o <<c, Followup(HWID_RESET_OK)>>
            /\ status' = "returned"
       ELSE IF reset_response.kind = "None"
       THEN /\ calls' = Append(calls, c)
            /\ status' = "raised"
       ELSE /\ calls' = calls \o <<c, Followup(HwidResetFailed(DictGet(reset_response.items, "message", "Unknown error")))>>
            /\ status' = "returned"
  /\ hpc' = "end"
  /\ UNCHANGED <<environ, ppc, cfgVars, cmd, localVars, served, relayVars>>

\* the invocation is over: the handler's frame is gone and the bot is idle again
Complete ==
  /\ status \in {"returned", "raised"}
  /\ status' = "idle"
  /\ cmd' = "none"
  /\ hpc' = "none"
  /\ key' = Unassigned
  /\ key_info' = Unassigned
  /\ role_to_assign' = Unassigned
  /\ keyauth_username' = Unassigned
  /\ calls' = <<>>
  /\ served' = served + 1
  /\ UNCHANGED <<environ, ppc, cfgVars, relayVars>>

\* ------------------------------------------------------------ webhook relay
\* (spec.md section 4.1; the relay's source file is not part of src/)

\* the message query parameter: absent, empty, or a text
Messages == {PyNone, PyStr(<<>>), PyStr(<<"h", "i">>)}

\* outcome of the outbound POST: a 2xx status, an error status, a transport error
PostOutcomes == {[kind |-> "status", code |-> 204], [kind |-> "status", code |-> 404],
                 Exc("ConnectionError", "connection refused")}

JsonError(text) == [kind |-> "error", text |-> text]
JsonSuccess(text) == [kind |-> "success", text |-> text]
HttpResponse(code, body) == [status |-> code, body |-> body]
Handled(resp, posts) == [response |-> resp, outbound |-> posts]

\* GET /send with the message checked before the webhook destination
relay_send_message_first(url, message, post) ==
  IF ~Truthy(message)
  THEN Handled(HttpResponse(400, JsonError(<<"provide a message parameter">>)), <<>>)
  ELSE IF ~Truthy(url)
  THEN Handled(HttpResponse(500, JsonError(<<"webhook URL is not configured">>)), <<>>)
  ELSE IF post.kind = "status" /\ post.code < 400
  THEN Handled(HttpResponse(200, JsonSuccess(<<"sent: ">> \o message.s)), <<[content |-> message.s]>>)
  ELSE Handled(HttpResponse(500, JsonError(<<"failed to send message">>)), <<[content |-> message.s]>>)

\* GET /send: destination configured (else 500), message present and
\* non-empty (else 400), one POST of {"content": message}, 200 or 500
relay_send(url, message, post) ==
  IF ~Truthy(url)
  THEN Handled(HttpResponse(500, JsonError(<<"webhook URL is not configured">>)), <<>>)
  ELSE IF ~Truthy(message)
  THEN Handled(HttpResponse(400, JsonError(<<"provide a message parameter">>)), <<>>)
  ELSE IF post.kind = "status" /\ post.code < 400
  THEN Handled(HttpResponse(200, JsonSuccess(<<"sent: ">> \o message.s)), <<[content |-> message.s]>>)
  ELSE Handled(HttpResponse(500, JsonError(<<"failed to send message">>)), <<[content |-> message.s]>>)

\* GET /
index ==
  /\ request' = [path |-> "/", message |-> PyNone]
  /\ response' = HttpResponse(200, <<"alive">>)
  /\ outbound' = <<>>
  /\ UNCHANGED <<botVars, WEBHOOK_URL>>

\* GET /send?message=<text>
send_message ==
  /\ \E message \in Messages, post \in PostOutcomes :
       LET h == relay_send(WEBHOOK_URL, message, post) IN
       /\ request' = [path |-> "/send", message |-> message]
       /\ response' = h.response
       /\ outbound' = h.outbound
  /\ UNCHANGED <<botVars, WEBHOOK_URL>>

Next ==
  \/ LoadConfig \/ Validate \/ KeyAuthInit \/ Main \/ on_ready
  \/ activate_key \/ ActivateLicense \/ ActivateInvalid \/ ActivateGetRole
  \/ ActivateGrant \/ ActivateSetvar
  \/ reset_hwid
  \/ reset_hwid_with_key \/ ResetLicense \/ ResetExtract \/ ResetHwid
  \/ Complete
  \/ index \/ send_message

Spec == Init /\ [][Next]_vars

\* ------------------------------------------------------------------ claims
HasCall(op) == \E i \in 1..Len(calls) : calls[i].op = op
CountCalls(op) == Cardinality({i \in 1..Len(calls) : calls[i].op = op})
LastCall == calls[Len(calls)]
\* the invocation ended by sending the follow-up `text`
EndedWith(text) ==
  /\ status = "returned"
  /\ Len(calls) > 0
  /\ LastCall.op = "followup"
  /\ LastCall.arg = text
\* the validation call of the current invocation returned (a dict or None)
Validated == key_info.kind \in {"dict", "None"}
FinishedHandler == status \in {"returned", "raised"}

\* C1 as stated: whenever activate gets a record that reports the key invalid
\* (a non-empty dict whose success flag is false or absent), the handler makes
\* no role grant and no set-user-variable call and the follow-up carries the
\* record's message verbatim.
C1_AsStated ==
  (cmd = "activate" /\ key_info.kind = "dict" /\ Truthy(key_info) /\ ~KeyValid(key_info)
     /\ FinishedHandler)
    => /\ ~HasCall("add_roles")
       /\ ~HasCall("setvar")
       /\ "message" \in DOMAIN key_info.items
       /\ EndedWith(ActivationFailed(key_info.items["message"]))

\* C1 amended: when validation does not succeed, activate never calls
\* add_roles or setvar, never raises, and its follow-up carries the record's
\* message verbatim when the record has one, "Unknown error" when a non-empty
\* record has none, and the failed-to-connect text when the record is empty
\* or there is no record.
C1_InvalidKeyNoGrant ==
  (cmd = "activate" /\ Validated /\ ~KeyValid(key_info))
    => /\ ~HasCall("add_roles")
       /\ ~HasCall("setvar")
       /\ status # "raised"
       /\ FinishedHandler =>
            IF key_info.kind = "dict" /\ "message" \in DOMAIN key_info.items
            THEN EndedWith(ActivationFailed(key_info.items["message"]))
            ELSE IF key_info.kind = "dict" /\ DOMAIN key_info.items # {}
            THEN EndedWith(ActivationFailed("Unknown error"))
            ELSE EndedWith(ActivationFailed("Failed to connect to KeyAuth API."))

C1_Witness ==
  /\ cmd = "activate"
  /\ key_info = PyDict([success |-> PyBool(FALSE), message |-> "Invalid license key"])
  /\ EndedWith(ActivationFailed("Invalid license key"))

\* C2: every invocation of the three commands ends by sending a follow-up
\* message, and no exception leaves the handler, whatever the licensing API
\* and the role grant do.
C2_EveryFailureAnswered ==
  FinishedHandler => (status = "returned" /\ LastCall.op = "followup")

\* C3: reset_hwid_with_key with a valid key and a non-empty username calls the
\* HWID reset exactly once, for that username, and its follow-up is the success
\* text when the reset succeeds and otherwise the failure text carrying the
\* reset's message, or "Unknown error" when it gives none.
C3_ResetOnceAndSurfaced ==
  (cmd = "reset_hwid_with_key" /\ hpc = "end" /\ Validated /\ KeyValid(key_info)
     /\ keyauth_username.kind = "str" /\ keyauth_username.s # "")
    => /\ CountCalls("hwid") = 1
       /\ \E i \in 1..Len(calls) :
            /\ calls[i].op = "hwid"
            /\ calls[i].arg = key_info.items["info"].items["username"]
            /\ LET r == calls[i].res IN
               IF r.kind = "dict" /\ KeyValid(r)
               THEN EndedWith(HWID_RESET_OK)
               ELSE IF r.kind = "dict" /\ "message" \in DOMAIN r.items
               THEN EndedWith(HwidResetFailed(r.items["message"]))
               ELSE EndedWith(HwidResetFailed("Unknown error"))

\* C4: activate with a valid key whose configured role does not resolve ends
\* with the configuration-error follow-up and makes no add_roles and no setvar
\* call.
C4_MissingRoleStops ==
  (cmd = "activate" /\ Validated /\ KeyValid(key_info) /\ role_to_assign.kind = "None")
    => /\ EndedWith(ROLE_NOT_FOUND)
       /\ ~HasCall("add_roles")
       /\ ~HasCall("setvar")

C4_Witness ==
  /\ cmd = "activate"
  /\ HasCall("get_role")
  /\ role_to_assign = PyNone
  /\ EndedWith(ROLE_NOT_FOUND)

\* the validation response carries no username: no info, no username, or an empty one
NoUsername(info) ==
  \/ "info" \notin DOMAIN info.items
  \/ "username" \notin DOMAIN info.items["info"].items
  \/ info.items["info"].items["username"] = ""

\* C5: reset_hwid_with_key never calls the HWID reset when validation fails or
\* when the validation response has no username; in the second case it ends
\* with the extraction-error follow-up.
C5_NoUsernameNoReset ==
  cmd = "reset_hwid_with_key"
    => /\ HasCall("hwid") => (Validated /\ KeyValid(key_info) /\ ~NoUsername(key_info))
       /\ (Validated /\ KeyValid(key_info) /\ NoUsername(key_info))
            => /\ status # "raised"
               /\ hpc # "hwid"
               /\ hpc = "end" => EndedWith(NO_USER_INFO)

C5_Witness ==
  /\ cmd = "reset_hwid_with_key"
  /\ key_info = PyDict([success |-> PyBool(TRUE), info |-> PyDict([username |-> ""])])
  /\ EndedWith(NO_USER_INFO)

\* C6: when add_roles raises Forbidden the follow-up is the permission-error
\* text, which differs from the generic error text; when it raises anything
\* else the follow-up is the generic text carrying the exception text; in both
\* cases setvar is not called and no success message is sent.
C6_GrantFailureTexts ==
  \A i \in 1..Len(calls) :
    (cmd = "activate" /\ calls[i].op = "add_roles" /\ calls[i].res.kind = "raise")
      => /\ ~HasCall("setvar")
         /\ ~EndedWith(ActivationSuccess(role_to_assign.name))
         /\ IF calls[i].res.type = "Forbidden"
            THEN /\ EndedWith(PERMISSION_ERROR)
                 /\ ~EndedWith(UnexpectedError(calls[i].res.text))
            ELSE EndedWith(UnexpectedError(calls[i].res.text))

C6_Witness ==
  /\ cmd = "activate"
  /\ \E i \in 1..Len(calls) :
       calls[i].op = "add_roles" /\ calls[i].res.kind = "raise" /\ calls[i].res.type = "Forbidden"
  /\ EndedWith(PERMISSION_ERROR)

\* C7: the bot never reaches client.run, and never serves a command, while one
\* of the four required settings is unset.
C7_NoRunWithoutConfig ==
  (ppc \in {"running", "ready"} \/ cmd # "none")
    => \A n \in EnvNames : n \in DOMAIN environ

C7_Witness ==
  /\ ppc = "exited"
  /\ "DISCORD_BOT_TOKEN" \notin DOMAIN environ
  /\ "DISCORD_ROLE_ID" \in DOMAIN environ

\* C8 as stated: GET /send without a message parameter answers 400 with an
\* error body and makes no outbound call, whether or not the webhook
\* destination is configured.
C8_AsStated ==
  (request.path = "/send" /\ request.message = PyNone)
    => /\ response.status = 400
       /\ response.body.kind = "error"
       /\ outbound = <<>>

\* C8 amended: GET /send without a message parameter makes no outbound call
\* and answers with an error body: 400 when the webhook destination is
\* configured, 500 (destination not configured) when it is not.
C8_NoMessageRejected ==
  (request.path = "/send" /\ ~Truthy(request.message))
    => /\ outbound = <<>>
       /\ response.body.kind = "error"
       /\ Truthy(WEBHOOK_URL) => response.status = 400
       /\ ~Truthy(WEBHOOK_URL)
            => response = HttpResponse(500, JsonError(<<"webhook URL is not configured">>))

C8_Witness ==
  /\ request = [path |-> "/send", message |-> PyNone]
  /\ Truthy(WEBHOOK_URL)
  /\ response.status = 400

\* C9: whenever add_roles succeeds, activate ends with the success follow-up
\* naming the role, whatever happens to the set-user-variable write.
C9_GrantThenSuccess ==
  (cmd = "activate" /\ hpc = "end"
     /\ \E i \in 1..Len(calls) : calls[i].op = "add_roles" /\ calls[i].res = Returned)
    => EndedWith(ActivationSuccess(role_to_assign.name))

\* C10: in every invocation the first external call is the deferred
\* acknowledgment and it is made once; at most one follow-up is sent; the
\* follow-up is the last call and the handler is over once it is sent.
C10_AckThenRespond ==
  cmd # "none"
    => /\ Len(calls) > 0
       /\ calls[1].op = "defer"
       /\ CountCalls("defer") = 1
       /\ CountCalls("followup") <= 1
       /\ \A i \in 1..Len(calls) : calls[i].op = "followup" => i = Len(calls)
       /\ HasCall("followup") => status = "returned"

C10_Witness ==
  /\ cmd = "reset_hwid_with_key"
  /\ Len(calls) = 4
  /\ calls[2].op = "license"
  /\ calls[3].op = "hwid"
  /\ EndedWith(HWID_RESET_OK)
====
